---- MODULE Spec2Model ----
(***************************************************************************)
(* The chunked, rate-limited completion pipeline of src/server.js:         *)
(* splitTextIntoChunks, wait and processTextWithGPT.  A call of            *)
(* processTextWithGPT is an async function: the code between two awaits    *)
(* runs as one step, so a call moves                                       *)
(*   idle -> (awaitResp -> awaitWait)* -> returned | thrown.               *)
(* server.js holds two revisions of the file; processTextWithGPT is the    *)
(* same in both (lines 88-130 and 373-415).  The calls split their text    *)
(* with the tokenizer-based splitter of the second revision (lines         *)
(* 357-365); the character-based splitter of the first revision (lines     *)
(* 37-80) is a program of its own, SpecSplit; the /api/file/action handler *)
(* around one call is SpecHandler; the tokenizer-based splitter applied to *)
(* a text and a budget of its own is SpecTokSplit.                         *)
(* Strings are sequences of one-character strings.                         *)
(***************************************************************************)
EXTENDS Integers, Sequences, FiniteSets, TLC

\* ---- bounds of the model ------------------------------------------------
MaxTextLen == 7          \* longest document text, in characters
MaxRetriesBound == 3     \* largest maxRetries argument

\* token budget of a chunk: the default of the maxTokens parameter, 6000 in
\* the source, scaled down to the bounded texts so that documents of 0..3
\* chunks exist
DefaultMaxTokens == 2

\* ---- program constants --------------------------------------------------
DefaultMaxRetries == 3   \* default of the maxRetries parameter
BaseDelay == 1000        \* let baseDelay = 1000
SuccessPause == 1000     \* await wait(1000) after a successful request

Calls == {1, 2}          \* the invocations of processTextWithGPT
Alphabet == {"a", "b"}
Separator == <<"\n", "\n">>

VARIABLES
  pc,          \* position of each call
  text,        \* argument text
  maxRetries,  \* argument maxRetries
  chunks,      \* const chunks
  results,     \* let results
  retryCount,  \* let retryCount
  idx,         \* 1-based position of the for-of loop in chunks
  success,     \* let success
  inflight,    \* provider requests issued and not yet settled
  ret,         \* value the call returned
  err,         \* value the call threw
  issued,      \* history: requests in the order they were issued
  reqLog,      \* history: settled requests with the provider's answer
  sleepLog,    \* history: the wait(ms) calls made
  splitText,       \* argument text of a call of the character-based splitter
  splitMaxTokens,  \* argument maxTokens of that call
  splitChunks,     \* the chunks it returned
  splitDone,       \* whether it has returned
  hpc,             \* position of the /api/file/action handler
  hreq,            \* req.body: fileId, action, prompt
  store,           \* the files of UPLOADS_DIR
  storeAtRequest,  \* history: the files when the request arrived
  resp             \* the response sent

callVars == <<pc, text, maxRetries, chunks, results, retryCount, idx, success,
              inflight, ret, err, issued, reqLog, sleepLog>>

splitVars == <<splitText, splitMaxTokens, splitChunks, splitDone>>

handlerVars == <<hpc, hreq, store, storeAtRequest, resp>>

otherVars == <<splitVars, handlerVars>>

vars == <<pc, text, maxRetries, chunks, results, retryCount, idx, success,
          inflight, ret, err, issued, reqLog, sleepLog,
          splitText, splitMaxTokens, splitChunks, splitDone,
          hpc, hreq, store, storeAtRequest, resp>>

\* ---- values -------------------------------------------------------------
Texts(A, n) == UNION {[1..k -> A] : k \in 0..n}

NoValue == [set |-> FALSE, val |-> <<>>]
NoError == [code |-> "none", message |-> [text |-> "", n |-> 0]]

\* gptResp.choices[0]?.message?.content: undefined, '' or a text
Undefined == [def |-> FALSE, str |-> <<>>]
Contents == {Undefined, [def |-> TRUE, str |-> <<>>], [def |-> TRUE, str |-> <<"x">>]}

RateLimitCode == "rate_limit_exceeded"
ErrorCodes == {RateLimitCode, "invalid_request_error"}
ProviderError(code) == [code |-> code, message |-> [text |-> "provider message", n |-> 0]]

Responses ==
  {[ok |-> TRUE, content |-> cnt, error |-> NoError] : cnt \in Contents}
  \cup {[ok |-> FALSE, content |-> Undefined, error |-> ProviderError(code)] : code \in ErrorCodes}

\* new Error(`Failed to process chunk after ${maxRetries} retries`)
BudgetError(mr) ==
  [code |-> "undefined", message |-> [text |-> "Failed to process chunk after N retries", n |-> mr]]

\* ---- the tokenizer (gpt-3-encoder), in miniature ------------------------
\* encode merges the pair "ab" into one token, every other character is a
\* token of its own; decode concatenates the tokens' characters
RECURSIVE encode(_)
encode(t) ==
  IF t = <<>> THEN <<>>
  ELSE IF Len(t) >= 2 /\ t[1] = "a" /\ t[2] = "b"
       THEN <<SubSeq(t, 1, 2)>> \o encode(SubSeq(t, 3, Len(t)))
       ELSE <<SubSeq(t, 1, 1)>> \o encode(Tail(t))

RECURSIVE decode(_)
decode(tokens) ==
  IF tokens = <<>> THEN <<>> ELSE Head(tokens) \o decode(Tail(tokens))

Min(a, b) == IF a < b THEN a ELSE b

\* mutant: the end index taken as inclusive
sliceInclusive(s, from, to) == SubSeq(s, from + 1, Min(to + 1, Len(s)))

\* Array.prototype.slice(from, to), 0-based and clamped
slice(s, from, to) == SubSeq(s, from + 1, Min(to, Len(s)))

RECURSIVE splitFrom(_, _, _)
splitFrom(tokens, i, maxTokens) ==
  IF i < Len(tokens)
  THEN <<decode(slice(tokens, i, i + maxTokens))>> \o splitFrom(tokens, i + maxTokens, maxTokens)
  ELSE <<>>

splitTextIntoChunks(t, maxTokens) == splitFrom(encode(t), 0, maxTokens)

\* ---- the character-based splitter (first revision, lines 37-80) ---------
IsSpace(ch) == ch \in {" ", "\n", "\t"}        \* \s
IsSentenceEnd(ch) == ch \in {".", "!", "?"}    \* [.!?]

\* the first index of s from i on that holds no white space
RECURSIVE skipSpace(_, _)
skipSpace(s, i) == IF i <= Len(s) /\ IsSpace(s[i]) THEN skipSpace(s, i + 1) ELSE i

\* s.split(/(?<=[.!?])\s+/): the separators are the runs of white space
\* that follow a '.', '!' or '?'; cur is the piece being read
RECURSIVE splitSentencesFrom(_, _, _)
splitSentencesFrom(s, i, cur) ==
  IF i > Len(s) THEN <<cur>>
  ELSE IF IsSpace(s[i]) /\ i > 1 /\ IsSentenceEnd(s[i - 1])
       THEN <<cur>> \o splitSentencesFrom(s, skipSpace(s, i), <<>>)
       ELSE splitSentencesFrom(s, i + 1, Append(cur, s[i]))

splitSentences(s) == splitSentencesFrom(s, 1, <<>>)

\* s.split(/\s+/): the separators are the runs of white space
RECURSIVE splitWordsFrom(_, _, _)
splitWordsFrom(s, i, cur) ==
  IF i > Len(s) THEN <<cur>>
  ELSE IF IsSpace(s[i])
       THEN <<cur>> \o splitWordsFrom(s, skipSpace(s, i), <<>>)
       ELSE splitWordsFrom(s, i + 1, Append(cur, s[i]))

splitWords(s) == splitWordsFrom(s, 1, <<>>)

\* String.prototype.trim
RECURSIVE trimEnd(_)
trimEnd(s) ==
  IF s # <<>> /\ IsSpace(s[Len(s)]) THEN trimEnd(SubSeq(s, 1, Len(s) - 1)) ELSE s

trim(s) == trimEnd(SubSeq(s, skipSpace(s, 1), Len(s)))

\* x + (x ? ' ' : '') + y
joinWithSpace(x, y) == x \o (IF x # <<>> THEN <<" ">> ELSE <<>>) \o y

\* mutant: the word that did not fit is dropped (tempChunk = '')
RECURSIVE wordLoopDropping(_, _, _, _, _)
wordLoopDropping(words, k, chs, temp, cpc) ==
  IF k > Len(words) THEN [chunks |-> chs, tempChunk |-> temp]
  ELSE IF Len(temp \o words[k]) > cpc
       THEN wordLoopDropping(words, k + 1, Append(chs, trim(temp)), <<>>, cpc)
       ELSE wordLoopDropping(words, k + 1, chs, joinWithSpace(temp, words[k]), cpc)

\* for (const word of words) { ... } of lines 56-63, from the k-th word
RECURSIVE wordLoop(_, _, _, _, _)
wordLoop(words, k, chs, temp, cpc) ==
  IF k > Len(words) THEN [chunks |-> chs, tempChunk |-> temp]
  ELSE IF Len(temp \o words[k]) > cpc
       THEN wordLoop(words, k + 1, Append(chs, trim(temp)), words[k], cpc)
       ELSE wordLoop(words, k + 1, chs, joinWithSpace(temp, words[k]), cpc)

\* for (const sentence of sentences) { ... } of lines 46-73, from the k-th
\* sentence; the result is the chunks and currentChunk after the loop
RECURSIVE sentenceLoop(_, _, _, _, _)
sentenceLoop(sents, k, chs, cur, cpc) ==
  IF k > Len(sents) THEN [chunks |-> chs, currentChunk |-> cur]
  ELSE
    LET sentence == sents[k]
        flushed == IF cur # <<>> THEN Append(chs, trim(cur)) ELSE chs
        w == wordLoop(splitWords(sentence), 1, flushed, <<>>, cpc)
    IN  IF Len(cur \o sentence) > cpc
        THEN IF Len(sentence) > cpc
             THEN sentenceLoop(sents, k + 1, w.chunks, w.tempChunk, cpc)
             ELSE sentenceLoop(sents, k + 1, flushed, sentence, cpc)
        ELSE sentenceLoop(sents, k + 1, chs, joinWithSpace(cur, sentence), cpc)

\* splitTextIntoChunks(text, maxTokens) of the first revision
splitTextIntoChunksByChars(t, maxTokens) ==
  LET charsPerChunk == maxTokens * 4
      r == sentenceLoop(splitSentences(t), 1, <<>>, <<>>, charsPerChunk)
  IN  IF r.currentChunk # <<>> THEN Append(r.chunks, trim(r.currentChunk)) ELSE r.chunks

\* ---- helpers of processTextWithGPT --------------------------------------
RECURSIVE Pow2(_)
Pow2(n) == IF n <= 0 THEN 1 ELSE 2 * Pow2(n - 1)

\* results.join(sep)
RECURSIVE join(_, _)
join(arr, sep) ==
  IF arr = <<>> THEN <<>>
  ELSE IF Len(arr) = 1 THEN arr[1]
  ELSE arr[1] \o sep \o join(Tail(arr), sep)

\* content || ''
OrEmpty(content) == IF content.def /\ content.str # <<>> THEN content.str ELSE <<>>

\* mutant: results.unshift(...)
PushResultFront(res, content) == <<OrEmpty(content)>> \o res

\* results.push(...)
PushResult(res, content) == Append(res, OrEmpty(content))

\* mutant: retryCount <= maxRetries
WhileTestOffByOne(succ, rc, mr) == ~succ /\ rc <= mr

\* while (!success && retryCount < maxRetries)
WhileTest(succ, rc, mr) == ~succ /\ rc < mr

\* mutant: every provider error is retried
IsRateLimitAny(e) == TRUE

\* error.code === 'rate_limit_exceeded'
IsRateLimit(e) == e.code = RateLimitCode

\* mutant: baseDelay * Math.pow(2, retryCount)
DelayOffByOne(rc) == BaseDelay * Pow2(rc)

\* baseDelay * Math.pow(2, retryCount - 1), retryCount already incremented
Delay(rc) == BaseDelay * Pow2(rc - 1)

\* mutant: retryCount is a module-level variable shared by all calls
IncRetryCountShared(c) == [d \in Calls |-> retryCount[d] + 1]

\* retryCount++ of the call c
IncRetryCount(c) == [retryCount EXCEPT ![c] = @ + 1]

\* ---- the ends of a step -------------------------------------------------
\* mutant: the requests of chunk i and of all later chunks are issued at once
RequestAll(c, ch, i) ==
  /\ pc' = [pc EXCEPT ![c] = "awaitResp"]
  /\ idx' = [idx EXCEPT ![c] = i]
  /\ inflight' = [inflight EXCEPT ![c] = @ \cup (i..Len(ch))]
  /\ issued' = [issued EXCEPT ![c] =
                  @ \o [k \in 1..(Len(ch) - i + 1) |-> [chunk |-> i + k - 1, content |-> ch[i + k - 1]]]]
  /\ UNCHANGED <<ret, err>>

\* openai.chat.completions.create(...) for chunk i: the request is in flight
Request(c, ch, i) ==
  /\ pc' = [pc EXCEPT ![c] = "awaitResp"]
  /\ idx' = [idx EXCEPT ![c] = i]
  /\ inflight' = [inflight EXCEPT ![c] = @ \cup {i}]
  /\ issued' = [issued EXCEPT ![c] = Append(@, [chunk |-> i, content |-> ch[i]])]
  /\ UNCHANGED <<ret, err>>

\* mutant: the failure is swallowed and the results so far are returned
ReturnPartial(c, i, e) ==
  /\ pc' = [pc EXCEPT ![c] = "returned"]
  /\ idx' = [idx EXCEPT ![c] = i]
  /\ ret' = [ret EXCEPT ![c] = [set |-> TRUE, val |-> join(results[c], Separator)]]
  /\ UNCHANGED <<inflight, issued, err>>

\* throw e while the loop is at chunk i
Throw(c, i, e) ==
  /\ pc' = [pc EXCEPT ![c] = "thrown"]
  /\ idx' = [idx EXCEPT ![c] = i]
  /\ err' = [err EXCEPT ![c] = e]
  /\ UNCHANGED <<inflight, issued, ret>>

\* return results.join('\n\n')
Return(c, res) ==
  /\ pc' = [pc EXCEPT ![c] = "returned"]
  /\ ret' = [ret EXCEPT ![c] = [set |-> TRUE, val |-> join(res, Separator)]]
  /\ UNCHANGED <<idx, inflight, issued, err>>

\* a chunk's first pass through the while loop (success = false), then
\* either the request or the throw after the loop
Attempt(c, ch, i, rc, mr) ==
  IF WhileTest(FALSE, rc, mr)
  THEN Request(c, ch, i)
  ELSE Throw(c, i, BudgetError(mr))

\* mutant: the retry budget is tested before the chunk list
NextChunkBudgetFirst(c, ch, i, rc, res, mr) ==
  IF ~(rc < mr)
  THEN /\ UNCHANGED success
       /\ Throw(c, i, BudgetError(mr))
  ELSE IF i < Len(ch)
  THEN /\ success' = [success EXCEPT ![c] = FALSE]
       /\ Attempt(c, ch, i + 1, rc, mr)
  ELSE /\ UNCHANGED success
       /\ Return(c, res)

\* the for-of header after chunk i: the next chunk if there is one
NextChunk(c, ch, i, rc, res, mr) ==
  IF i < Len(ch)
  THEN /\ success' = [success EXCEPT ![c] = FALSE]
       /\ Attempt(c, ch, i + 1, rc, mr)
  ELSE /\ UNCHANGED success
       /\ Return(c, res)

\* ---- actions ------------------------------------------------------------
\* processTextWithGPT(t, prompt, model, mr) up to its first await
Call(c, T, R) ==
  /\ pc[c] = "idle"
  /\ \E t \in T, mr \in R :
       LET ch == splitTextIntoChunks(t, DefaultMaxTokens) IN
         /\ text' = [text EXCEPT ![c] = t]
         /\ maxRetries' = [maxRetries EXCEPT ![c] = mr]
         /\ chunks' = [chunks EXCEPT ![c] = ch]
         /\ results' = [results EXCEPT ![c] = <<>>]
         /\ retryCount' = [retryCount EXCEPT ![c] = 0]
         /\ NextChunk(c, ch, 0, 0, <<>>, mr)
  /\ UNCHANGED <<reqLog, sleepLog>>

\* mutant: the pause after a success is computed like the backoff delay
ResolvedGrowingPause(c, r) ==
  /\ results' = [results EXCEPT ![c] = PushResult(@, r.content)]
  /\ success' = [success EXCEPT ![c] = TRUE]
  /\ pc' = [pc EXCEPT ![c] = "awaitWait"]
  /\ sleepLog' = [sleepLog EXCEPT ![c] =
                    Append(@, [ms |-> Delay(retryCount[c] + 1), kind |-> "pause", chunk |-> idx[c]])]
  /\ UNCHANGED <<retryCount, err>>

\* the request resolved: push the result, success = true, wait(1000)
Resolved(c, r) ==
  /\ results' = [results EXCEPT ![c] = PushResult(@, r.content)]
  /\ success' = [success EXCEPT ![c] = TRUE]
  /\ pc' = [pc EXCEPT ![c] = "awaitWait"]
  /\ sleepLog' = [sleepLog EXCEPT ![c] =
                    Append(@, [ms |-> SuccessPause, kind |-> "pause", chunk |-> idx[c]])]
  /\ UNCHANGED <<retryCount, err>>

\* mutant: the counter is reset after the backoff is computed
RateLimitedReset(c) ==
  /\ retryCount' = [retryCount EXCEPT ![c] = 0]
  /\ pc' = [pc EXCEPT ![c] = "awaitWait"]
  /\ sleepLog' = [sleepLog EXCEPT ![c] =
                    Append(@, [ms |-> Delay(retryCount[c] + 1), kind |-> "backoff", chunk |-> idx[c]])]
  /\ UNCHANGED <<results, success, err>>

\* the request rejected with a rate-limit error: retryCount++, wait(delay)
RateLimited(c) ==
  /\ retryCount' = IncRetryCount(c)
  /\ pc' = [pc EXCEPT ![c] = "awaitWait"]
  /\ sleepLog' = [sleepLog EXCEPT ![c] =
                    Append(@, [ms |-> Delay(retryCount'[c]), kind |-> "backoff", chunk |-> idx[c]])]
  /\ UNCHANGED <<results, success, err>>

\* the request rejected with any other error: throw error
Rethrown(c, e) ==
  /\ pc' = [pc EXCEPT ![c] = "thrown"]
  /\ err' = [err EXCEPT ![c] = e]
  /\ UNCHANGED <<results, success, retryCount, sleepLog>>

\* the catch clause
Caught(c, e) == IF IsRateLimit(e) THEN RateLimited(c) ELSE Rethrown(c, e)

\* the provider settles the outstanding request of call c
Respond(c) ==
  /\ pc[c] = "awaitResp"
  /\ \E i \in inflight[c], r \in Responses :
       /\ inflight' = [inflight EXCEPT ![c] = @ \ {i}]
       /\ reqLog' = [reqLog EXCEPT ![c] = Append(@, [chunk |-> i, resp |-> r])]
       /\ IF r.ok THEN Resolved(c, r) ELSE Caught(c, r.error)
  /\ UNCHANGED <<text, maxRetries, chunks, idx, ret, issued>>

\* the timer of wait(ms) fires: back to the test of the while loop
WaitDone(c) ==
  /\ pc[c] = "awaitWait"
  /\ IF WhileTest(success[c], retryCount[c], maxRetries[c])
     THEN /\ Request(c, chunks[c], idx[c])
          /\ UNCHANGED success
     ELSE IF ~success[c]
     THEN /\ Throw(c, idx[c], BudgetError(maxRetries[c]))
          /\ UNCHANGED success
     ELSE NextChunk(c, chunks[c], idx[c], retryCount[c], results[c], maxRetries[c])
  /\ UNCHANGED <<text, maxRetries, chunks, results, retryCount, reqLog, sleepLog>>

\* ---- specifications -----------------------------------------------------
InitCalls ==
  /\ pc = [c \in Calls |-> "idle"]
  /\ text = [c \in Calls |-> <<>>]
  /\ maxRetries = [c \in Calls |-> DefaultMaxRetries]
  /\ chunks = [c \in Calls |-> <<>>]
  /\ results = [c \in Calls |-> <<>>]
  /\ retryCount = [c \in Calls |-> 0]
  /\ idx = [c \in Calls |-> 0]
  /\ success = [c \in Calls |-> FALSE]
  /\ inflight = [c \in Calls |-> {}]
  /\ ret = [c \in Calls |-> NoValue]
  /\ err = [c \in Calls |-> NoError]
  /\ issued = [c \in Calls |-> <<>>]
  /\ reqLog = [c \in Calls |-> <<>>]
  /\ sleepLog = [c \in Calls |-> <<>>]

\* the splitter of the first revision is not called on its own
InitSplitIdle ==
  /\ splitText = <<>>
  /\ splitMaxTokens = 1
  /\ splitChunks = <<>>
  /\ splitDone = FALSE

\* values of the handler
NoFileId == <<>>
NoRequest == [fileId |-> NoFileId, action |-> "", prompt |-> ""]
NoResponse == [status |-> 0, error |-> "", details |-> NoError.message, body |-> ""]

\* no request has arrived and UPLOADS_DIR is empty
InitHandlerIdle ==
  /\ hpc = "idle"
  /\ hreq = NoRequest
  /\ store = {}
  /\ storeAtRequest = {}
  /\ resp = NoResponse

Init == InitCalls /\ InitSplitIdle /\ InitHandlerIdle

\* one call, every document and every retry budget
Next ==
  \/ Call(1, Texts(Alphabet, MaxTextLen), 0..MaxRetriesBound) /\ UNCHANGED otherVars
  \/ Respond(1) /\ UNCHANGED otherVars
  \/ WaitDone(1) /\ UNCHANGED otherVars

Spec == Init /\ [][Next]_vars

\* two interleaved calls (concurrent client requests), on documents of one
\* letter and with a retry budget of at least 1
MaxConcTextLen == 4
MaxConcRetries == 2

NextConc ==
  \E c \in Calls :
    \/ Call(c, Texts({"a"}, MaxConcTextLen), 1..MaxConcRetries) /\ UNCHANGED otherVars
    \/ Respond(c) /\ UNCHANGED otherVars
    \/ WaitDone(c) /\ UNCHANGED otherVars

SpecConc == Init /\ [][NextConc]_vars

\* ---- reading the histories ----------------------------------------------
IsOkEntry(e) == e.resp.ok
IsRateLimitEntry(e) == ~e.resp.ok /\ e.resp.error.code = RateLimitCode
IsFatalEntry(e) == ~e.resp.ok /\ e.resp.error.code # RateLimitCode
IsBackoff(s) == s.kind = "backoff"

OkLog(c) == SelectSeq(reqLog[c], IsOkEntry)
RateLimitCount(c) == Len(SelectSeq(reqLog[c], IsRateLimitEntry))

\* the text a completion contributes to the output
ContentText(cnt) == IF cnt.def THEN cnt.str ELSE <<>>

\* the first n texts of a sequence, separated by a blank line
RECURSIVE Combined(_, _)
Combined(texts, n) ==
  IF n = 0 THEN <<>>
  ELSE IF n = 1 THEN texts[1]
  ELSE Combined(texts, n - 1) \o Separator \o texts[n]

OkTexts(c) == [i \in 1..Len(OkLog(c)) |-> ContentText(OkLog(c)[i].resp.content)]

\* ---- C1 ------------------------------------------------------------------
\* C1: when a call returns, the value is the completions of the chunks joined
\* with "\n\n" in the order the splitter produced the chunks, one completion
\* per chunk: the k-th successful request was made for chunk k with chunk k's
\* text, there are as many of them as chunks, and nothing else is in the value.
C1_CombinedInChunkOrder ==
  \A c \in Calls :
    pc[c] = "returned" =>
      /\ chunks[c] = splitTextIntoChunks(text[c], DefaultMaxTokens)
      /\ Len(OkLog(c)) = Len(chunks[c])
      /\ \A k \in 1..Len(OkLog(c)) : OkLog(c)[k].chunk = k
      /\ \A j \in 1..Len(issued[c]) :
           issued[c][j].content = chunks[c][issued[c][j].chunk]
      /\ ret[c].set
      /\ ret[c].val = Combined(OkTexts(c), Len(chunks[c]))

\* a three-chunk call returned after a rate-limit retry, one completion
\* without content and one with
C1_Witness ==
  /\ pc[1] = "returned"
  /\ Len(chunks[1]) = 3
  /\ RateLimitCount(1) >= 1
  /\ \E k \in 1..Len(OkLog(1)) : ~OkLog(1)[k].resp.content.def
  /\ \E k \in 1..Len(OkLog(1)) : OkLog(1)[k].resp.content.str # <<>>

\* ---- C2 ------------------------------------------------------------------
\* C2: when a call starts processing a chunk (its first request for the chunk
\* is outstanding and nothing has been answered for it yet), the attempt
\* counter is zero.
C2_RetryCountZeroAtChunkStart ==
  \A c \in Calls :
    ( /\ pc[c] = "awaitResp"
      /\ \A j \in 1..Len(reqLog[c]) : reqLog[c][j].chunk # idx[c] )
    => retryCount[c] = 0

\* ---- C3 ------------------------------------------------------------------
AllRateLimited(c) == \A j \in 1..Len(reqLog[c]) : IsRateLimitEntry(reqLog[c][j])

\* C3: with a non-empty document and a provider that has answered every
\* request with a rate-limit error, the call never returns, requests only the
\* first chunk, makes at most maxRetries requests, and once maxRetries of them
\* were rejected it issues no further request and fails, after exactly
\* maxRetries requests, with the budget-exhausted error.
C3_AlwaysRateLimited ==
  \A c \in Calls :
    (pc[c] # "idle" /\ chunks[c] # <<>> /\ AllRateLimited(c)) =>
      /\ pc[c] # "returned"
      /\ ~ret[c].set
      /\ \A j \in 1..Len(issued[c]) : issued[c][j].chunk = 1
      /\ Len(issued[c]) <= maxRetries[c]
      /\ Len(reqLog[c]) = maxRetries[c] => pc[c] \in {"awaitWait", "thrown"}
      /\ pc[c] = "thrown" =>
           /\ Len(issued[c]) = maxRetries[c]
           /\ Len(reqLog[c]) = maxRetries[c]
           /\ err[c] = BudgetError(maxRetries[c])

\* a three-chunk call with budget 3 failed after three rejections
C3_Witness ==
  /\ pc[1] = "thrown"
  /\ Len(chunks[1]) = 3
  /\ maxRetries[1] = 3
  /\ Len(reqLog[1]) = 3
  /\ AllRateLimited(1)

\* ---- C4 ------------------------------------------------------------------
\* C4: the value a failed call raises tells the caller which chunk failed:
\* two calls that failed with equal values failed at the same chunk index.
C4_FailureCarriesChunkIndex ==
  \A c, d \in Calls :
    (pc[c] = "thrown" /\ pc[d] = "thrown" /\ err[c] = err[d]) => idx[c] = idx[d]

\* ---- C5 ------------------------------------------------------------------
\* C5: a request answered with an error whose code is not
\* 'rate_limit_exceeded' is the last request of the call: the call has failed
\* with that same error, nothing was requested after it (no retry, no later
\* chunk), nothing is outstanding, and no sleep followed it (every earlier
\* answer was followed by exactly one sleep).
C5_FatalErrorFailsImmediately ==
  \A c \in Calls :
    \A j \in 1..Len(reqLog[c]) :
      IsFatalEntry(reqLog[c][j]) =>
        /\ j = Len(reqLog[c])
        /\ pc[c] = "thrown"
        /\ err[c] = reqLog[c][j].resp.error
        /\ Len(issued[c]) = j
        /\ inflight[c] = {}
        /\ Len(sleepLog[c]) = j - 1
        /\ ~ret[c].set

\* a three-chunk call failed on a fatal error at its second chunk
C5_Witness ==
  /\ pc[1] = "thrown"
  /\ Len(chunks[1]) = 3
  /\ Len(reqLog[1]) >= 2
  /\ IsFatalEntry(reqLog[1][Len(reqLog[1])])
  /\ reqLog[1][Len(reqLog[1])].chunk = 2

\* ---- C6 ------------------------------------------------------------------
TwiceThenOk(c) ==
  /\ Len(reqLog[c]) >= 3
  /\ IsRateLimitEntry(reqLog[c][1])
  /\ IsRateLimitEntry(reqLog[c][2])
  /\ IsOkEntry(reqLog[c][3])

\* C6: with maxRetries = 3, when the first two requests of a call are
\* rejected with a rate-limit error and the third succeeds, the three requests
\* are the three attempts of the first chunk, the sleeps taken between them
\* are 1000 ms and 2000 ms, the third answer is the chunk's result, and if the
\* provider rejects nothing else the call does not fail.
C6_TwoRejectionsThenSuccess ==
  \A c \in Calls :
    (maxRetries[c] = DefaultMaxRetries /\ TwiceThenOk(c)) =>
      /\ \A j \in 1..3 : reqLog[c][j].chunk = 1 /\ issued[c][j].chunk = 1
      /\ Len(sleepLog[c]) >= 3
      /\ IsBackoff(sleepLog[c][1]) /\ sleepLog[c][1].ms = BaseDelay
      /\ IsBackoff(sleepLog[c][2]) /\ sleepLog[c][2].ms = BaseDelay * 2
      /\ ~IsBackoff(sleepLog[c][3])
      /\ results[c] # <<>>
      /\ results[c][1] = ContentText(reqLog[c][3].resp.content)
      /\ (\A j \in 3..Len(reqLog[c]) : IsOkEntry(reqLog[c][j])) => pc[c] # "thrown"

\* a three-chunk call returned after exactly two rejections, both at chunk 1
C6_Witness ==
  /\ pc[1] = "returned"
  /\ maxRetries[1] = DefaultMaxRetries
  /\ Len(chunks[1]) = 3
  /\ TwiceThenOk(1)
  /\ RateLimitCount(1) = 2

\* ---- C7 ------------------------------------------------------------------
\* the number of backoff sleeps of chunk i among the first j sleeps
BackoffsOfChunk(c, i, j) ==
  Cardinality({k \in 1..j : IsBackoff(sleepLog[c][k]) /\ sleepLog[c][k].chunk = i})

\* C7: the backoff sleep after the k-th rate-limit rejection of a chunk,
\* counting the rejections of that chunk only, is BaseDelay * 2^(k-1).
C7_BackoffPerChunk ==
  \A c \in Calls :
    \A j \in 1..Len(sleepLog[c]) :
      IsBackoff(sleepLog[c][j]) =>
        sleepLog[c][j].ms =
          BaseDelay * Pow2(BackoffsOfChunk(c, sleepLog[c][j].chunk, j) - 1)

\* ---- C8 ------------------------------------------------------------------
\* C8: a call has at most one request outstanding, none while it sleeps;
\* the first request is for chunk 1, requests are issued in non-decreasing
\* chunk order, and a request for the next chunk is issued only after the
\* previous request, made for the chunk before it, was answered successfully
\* and the sleep after that answer was taken.
C8_OneRequestAtATime ==
  \A c \in Calls :
    /\ Cardinality(inflight[c]) <= 1
    /\ Len(issued[c]) - Len(reqLog[c]) = Cardinality(inflight[c])
    /\ pc[c] = "awaitWait" => inflight[c] = {}
    /\ issued[c] # <<>> => issued[c][1].chunk = 1
    /\ \A j \in 2..Len(issued[c]) :
         /\ issued[c][j].chunk >= issued[c][j - 1].chunk
         /\ Len(reqLog[c]) >= j - 1
         /\ Len(sleepLog[c]) >= j - 1
         /\ reqLog[c][j - 1].chunk = issued[c][j - 1].chunk
         /\ issued[c][j].chunk # issued[c][j - 1].chunk =>
              /\ issued[c][j].chunk = issued[c][j - 1].chunk + 1
              /\ IsOkEntry(reqLog[c][j - 1])
              /\ ~IsBackoff(sleepLog[c][j - 1])

\* the third chunk's request is outstanding after a retry of an earlier chunk
C8_Witness ==
  /\ pc[1] = "awaitResp"
  /\ inflight[1] = {3}
  /\ RateLimitCount(1) >= 1
  /\ Len(issued[1]) >= 4

\* ---- C9 ------------------------------------------------------------------
BackoffLog(c) == SelectSeq(sleepLog[c], IsBackoff)

\* C9: the state of each of two interleaved calls is a function of that
\* call's own arguments and of the answers to its own requests: its chunk
\* list is the split of its own text, its attempt counter is the number of
\* rate-limit rejections of its own requests, its results are the texts of
\* its own successful answers in order, its k-th backoff sleep is
\* BaseDelay * 2^(k-1), it fails on the retry budget only when its own
\* rejections reach its own maxRetries, and what it returns is the
\* combination of its own results.
C9_CallsIndependent ==
  \A c \in Calls :
    pc[c] # "idle" =>
      /\ chunks[c] = splitTextIntoChunks(text[c], DefaultMaxTokens)
      /\ retryCount[c] = RateLimitCount(c)
      /\ results[c] = OkTexts(c)
      /\ Len(BackoffLog(c)) = RateLimitCount(c)
      /\ \A k \in 1..Len(BackoffLog(c)) : BackoffLog(c)[k].ms = BaseDelay * Pow2(k - 1)
      /\ (pc[c] = "thrown" /\ err[c] = BudgetError(maxRetries[c])) =>
           RateLimitCount(c) = maxRetries[c]
      /\ pc[c] = "returned" =>
           /\ RateLimitCount(c) < maxRetries[c] \/ chunks[c] = <<>>
           /\ ret[c].val = Combined(OkTexts(c), Len(OkTexts(c)))

\* both calls are under way: call 1 sleeps after a rejection that used up
\* its budget while call 2, never rejected, waits for its second chunk
C9_Witness ==
  /\ pc[1] = "awaitWait"
  /\ RateLimitCount(1) = maxRetries[1]
  /\ pc[2] = "awaitResp"
  /\ idx[2] = 2
  /\ RateLimitCount(2) = 0
  /\ maxRetries[2] = 1

\* ---- C10 -----------------------------------------------------------------
\* a chunk of the call has permanently failed and the call has run on
PermanentlyFailed(c) ==
  \/ \E j \in 1..Len(reqLog[c]) : IsFatalEntry(reqLog[c][j])
  \/ /\ pc[c] \notin {"idle", "awaitWait"}
     /\ Len(OkLog(c)) < Len(chunks[c])
     /\ RateLimitCount(c) >= maxRetries[c]

\* C10: a call hands a value to its caller only by returning, and then the
\* value combines one result for every chunk; a call that has thrown has
\* handed over nothing, and a call one of whose chunks permanently failed
\* has thrown.
C10_NoPartialOutput ==
  \A c \in Calls :
    /\ ret[c].set =>
         /\ pc[c] = "returned"
         /\ Len(results[c]) = Len(chunks[c])
         /\ ret[c].val = Combined(results[c], Len(chunks[c]))
    /\ pc[c] = "thrown" => ret[c] = NoValue
    /\ PermanentlyFailed(c) => pc[c] = "thrown"

\* a call failed at its third chunk with two results already computed
C10_Witness ==
  /\ pc[1] = "thrown"
  /\ idx[1] = 3
  /\ Len(results[1]) = 2
  /\ ret[1] = NoValue

\* ---- C12 -----------------------------------------------------------------
\* the number of rate-limit rejections among the first j answers
RateLimitsUpTo(c, j) ==
  Cardinality({k \in 1..j : IsRateLimitEntry(reqLog[c][k])})

\* C12: the j-th answer of the provider is followed by the j-th sleep of the
\* call, unless it is a fatal error, which is followed by none.  After a
\* success the sleep is the fixed pause of 1000 ms whatever the attempt
\* counter is; after a rate-limit rejection it is the exponential backoff and
\* nothing else; and a request issued after an answer is issued after that
\* answer's sleep.
C12_FixedPauseAfterSuccess ==
  \A c \in Calls :
    /\ Len(sleepLog[c]) =
         Cardinality({j \in 1..Len(reqLog[c]) : ~IsFatalEntry(reqLog[c][j])})
    /\ Len(issued[c]) <= Len(sleepLog[c]) + 1
    /\ \A j \in 1..Len(reqLog[c]) :
         /\ IsOkEntry(reqLog[c][j]) =>
              /\ j <= Len(sleepLog[c])
              /\ ~IsBackoff(sleepLog[c][j])
              /\ sleepLog[c][j].ms = SuccessPause
              /\ sleepLog[c][j].chunk = reqLog[c][j].chunk
         /\ IsRateLimitEntry(reqLog[c][j]) =>
              /\ j <= Len(sleepLog[c])
              /\ IsBackoff(sleepLog[c][j])
              /\ sleepLog[c][j].ms = BaseDelay * Pow2(RateLimitsUpTo(c, j) - 1)

\* a success that came after two rejections was followed by the 1000 ms pause
\* and then by the request of the next chunk
C12_Witness ==
  /\ pc[1] = "awaitResp"
  /\ idx[1] = 2
  /\ Len(reqLog[1]) = 3
  /\ RateLimitCount(1) = 2
  /\ IsOkEntry(reqLog[1][3])
  /\ sleepLog[1][3].ms = SuccessPause

\* ---- C18 -----------------------------------------------------------------
\* C18: a backoff sleep is taken only while attempts remain: the rejection
\* it follows is not the one that uses up the retry budget.
C18_BackoffOnlyIfAttemptsRemain ==
  \A c \in Calls :
    \A j \in 1..Len(reqLog[c]) :
      (IsRateLimitEntry(reqLog[c][j]) /\ RateLimitsUpTo(c, j) >= maxRetries[c])
        => Len(sleepLog[c]) < j

\* ---- C19 -----------------------------------------------------------------
\* the requests the call made for chunk i
RequestsForChunk(c, i) ==
  Cardinality({j \in 1..Len(issued[c]) : issued[c][j].chunk = i})

\* C19: the number of attempts stated in the budget-exhausted error is the
\* number of requests made for the chunk that failed.
C19_StatedAttemptsAreRequestsMade ==
  \A c \in Calls :
    (pc[c] = "thrown" /\ err[c] = BudgetError(maxRetries[c])) =>
      err[c].message.n = RequestsForChunk(c, idx[c])

\* ---- C20 -----------------------------------------------------------------
Finished(c) == pc[c] \in {"returned", "thrown"}

\* every request and every sleep of the call completes
Fairness ==
  /\ WF_vars(Respond(1) /\ UNCHANGED otherVars)
  /\ WF_vars(WaitDone(1) /\ UNCHANGED otherVars)

SpecFair == Spec /\ Fairness

\* C20: a call that has started finishes; with maxRetries >= 1 and a
\* document of N >= 1 chunks it makes at most N + maxRetries - 1 requests;
\* the rate-limit counter never decreases and never passes maxRetries.
C20_TerminatesWithinRequestBound ==
  /\ (pc[1] # "idle") ~> Finished(1)
  /\ [](\A c \in Calls :
          (maxRetries[c] >= 1 /\ Len(chunks[c]) >= 1) =>
            /\ Len(issued[c]) <= Len(chunks[c]) + maxRetries[c] - 1
            /\ retryCount[c] <= maxRetries[c])
  /\ [][\A c \in Calls : pc[c] # "idle" => retryCount'[c] >= retryCount[c]]_vars

\* a three-chunk call with budget 3 finished after 3 + 3 - 1 requests
C20_Witness ==
  /\ Finished(1)
  /\ Len(chunks[1]) = 3
  /\ maxRetries[1] = 3
  /\ Len(issued[1]) = 5

\* ---- the character-based splitter as a program of its own ---------------
MaxSplitTextLen == 7     \* longest text given to the splitter
MaxSplitTokens == 2      \* largest maxTokens given to the splitter
SplitAlphabet == {"a", ".", " "}

InitSplit ==
  /\ InitCalls
  /\ InitHandlerIdle
  /\ splitText \in Texts(SplitAlphabet, MaxSplitTextLen)
  /\ splitMaxTokens \in 1..MaxSplitTokens
  /\ splitChunks = <<>>
  /\ splitDone = FALSE

\* chunks = splitTextIntoChunks(text, maxTokens)
Split ==
  /\ ~splitDone
  /\ splitChunks' = splitTextIntoChunksByChars(splitText, splitMaxTokens)
  /\ splitDone' = TRUE
  /\ UNCHANGED <<splitText, splitMaxTokens, callVars, handlerVars>>

NextSplit == Split

SpecSplit == InitSplit /\ [][NextSplit]_vars

\* ---- C11 -----------------------------------------------------------------
\* C11: both splitters return no chunk for the empty text, and a call on the
\* empty text has returned the empty string without a request, a sleep or an
\* error, whatever maxRetries is.
C11_EmptyText ==
  /\ \A B \in 1..MaxSplitTokens :
       /\ splitTextIntoChunksByChars(<<>>, B) = <<>>
       /\ splitTextIntoChunks(<<>>, B) = <<>>
  /\ \A c \in Calls :
       (pc[c] # "idle" /\ text[c] = <<>>) =>
         /\ chunks[c] = <<>>
         /\ pc[c] = "returned"
         /\ ret[c] = [set |-> TRUE, val |-> <<>>]
         /\ err[c] = NoError
         /\ issued[c] = <<>>
         /\ inflight[c] = {}
         /\ sleepLog[c] = <<>>

\* a call on the empty text with maxRetries = 0 returned
C11_Witness ==
  /\ pc[1] = "returned"
  /\ text[1] = <<>>
  /\ maxRetries[1] = 0

\* ---- C13 -----------------------------------------------------------------
CharsPerChunk == splitMaxTokens * 4

\* C13: no chunk the character-based splitter returns is longer than
\* maxTokens * 4 characters.
C13_ChunksWithinBudget ==
  splitDone => \A i \in 1..Len(splitChunks) : Len(splitChunks[i]) <= CharsPerChunk

\* ---- C14 -----------------------------------------------------------------
\* C14: the character-based splitter returns no empty chunk, and it returns
\* no chunk at all only for the empty text.
C14_NoEmptyChunk ==
  splitDone =>
    /\ \A i \in 1..Len(splitChunks) : splitChunks[i] # <<>>
    /\ splitChunks = <<>> => splitText = <<>>

\* ---- C15 -----------------------------------------------------------------
\* the words of s: its maximal runs of characters that are not white space
RECURSIVE WordsOf(_)
WordsOf(s) ==
  IF s = <<>> THEN <<>>
  ELSE IF IsSpace(s[1]) THEN WordsOf(Tail(s))
  ELSE LET rest == WordsOf(Tail(s))
       IN  IF Len(s) >= 2 /\ ~IsSpace(s[2])
           THEN <<<<s[1]>> \o rest[1]>> \o Tail(rest)
           ELSE <<<<s[1]>>>> \o rest

\* the text holds a sentence or a word longer than the budget
HasOversizedUnit ==
  \/ \E k \in 1..Len(splitSentences(splitText)) :
       Len(splitSentences(splitText)[k]) > CharsPerChunk
  \/ \E k \in 1..Len(WordsOf(splitText)) : Len(WordsOf(splitText)[k]) > CharsPerChunk

\* C15: when the text holds a sentence or a word longer than the budget, the
\* splitter cuts it so that every chunk it returns is within the budget.
C15_OversizedUnitForceSplit ==
  (splitDone /\ HasOversizedUnit) =>
    \A i \in 1..Len(splitChunks) :
      splitChunks[i] # <<>> /\ Len(splitChunks[i]) <= CharsPerChunk

\* ---- C16 -----------------------------------------------------------------
\* the words of the first n chunks, in chunk order
RECURSIVE ChunkWords(_, _)
ChunkWords(chs, n) ==
  IF n = 0 THEN <<>> ELSE ChunkWords(chs, n - 1) \o WordsOf(chs[n])

\* C16: the words of the chunks, read in chunk order, are the words of the
\* text in their order.
C16_WordsPreserved ==
  splitDone => ChunkWords(splitChunks, Len(splitChunks)) = WordsOf(splitText)

\* a sentence of three words, longer than the budget, was cut between its
\* words into two chunks
C16_Witness ==
  /\ splitDone
  /\ Len(splitSentences(splitText)) = 1
  /\ Len(splitText) > CharsPerChunk
  /\ Len(WordsOf(splitText)) = 3
  /\ Len(splitChunks) = 2

\* ---- the /api/file/action handler (lines 199-304 and 509-614) ------------
MaxHandlerTextLen == 5   \* longest text of an uploaded file

TxtFile == <<"doc", ".txt">>
PdfFile == <<"doc", ".pdf">>
FileIds == {NoFileId, TxtFile, PdfFile, <<"gone", ".txt">>}
Actions == {"fix", "translate", "analyze", "custom", "rename"}
KnownActions == {"fix", "translate", "analyze", "custom"}
Prompts == {"", "p"}

\* path.extname(filePath)
extname(fileId) == fileId[Len(fileId)]

\* fileId.replace(ext, '') + `_${action}` + ext
DerivedName(fileId, action) ==
  SubSeq(fileId, 1, Len(fileId) - 1) \o <<"_", action, extname(fileId)>>

\* fs.existsSync(filePath)
Exists(files, name) == \E f \in files : f.name = name

\* fs.readFileSync(filePath): for a PDF, the text its pages hold
ReadFile(files, name) == (CHOOSE f \in files : f.name = name).content

\* fs.writeFileSync(path, content)
WriteFile(files, name, content) ==
  {f \in files : f.name # name} \cup {[name |-> name, content |-> content]}

\* res.status(n).json({ error, details })
ErrorResponse(n, error, details) ==
  [status |-> n, error |-> error, details |-> details, body |-> ""]

\* res.json(result)
OkResponse(kind) ==
  [status |-> 200, error |-> "", details |-> NoError.message, body |-> kind]

OtherMessage == [text |-> "other error", n |-> 0]

\* mutant: the derived file is created before the pipeline result is known
FailWithEmptyFile(error, details) ==
  /\ hpc' = "done"
  /\ resp' = ErrorResponse(500, error, details)
  /\ store' = WriteFile(store, DerivedName(hreq.fileId, hreq.action), <<>>)
  /\ UNCHANGED <<hreq, storeAtRequest>>

\* a catch clause of the handler: res.status(500).json({ error, details })
FailWith(error, details) ==
  /\ hpc' = "done"
  /\ resp' = ErrorResponse(500, error, details)
  /\ UNCHANGED <<hreq, store, storeAtRequest>>

\* the test of the action, then await processTextWithGPT(content, gptPrompt)
StartPipeline(action, content) ==
  IF action \notin KnownActions
  THEN /\ hpc' = "done"
       /\ resp' = ErrorResponse(400, "Unknown action", NoError.message)
       /\ UNCHANGED callVars
  ELSE /\ hpc' = "awaitGPT"
       /\ resp' = resp
       /\ Call(1, {content}, {DefaultMaxRetries})

\* the request arrives: the handler runs to its first await or to its response
HandleRequest ==
  /\ hpc = "idle"
  /\ \E fileId \in FileIds, action \in Actions, prompt \in Prompts :
       /\ hreq' = [fileId |-> fileId, action |-> action, prompt |-> prompt]
       /\ storeAtRequest' = store
       /\ UNCHANGED store
       /\ IF fileId = NoFileId /\ ~(action = "custom" /\ prompt # "")
          THEN /\ hpc' = "done"
               /\ resp' = ErrorResponse(400, "fileId and action are required", NoError.message)
               /\ UNCHANGED callVars
          ELSE IF fileId = NoFileId
          THEN \* path.join(UPLOADS_DIR, undefined) throws
               /\ hpc' = "done"
               /\ resp' = ErrorResponse(500, "file", OtherMessage)
               /\ UNCHANGED callVars
          ELSE IF ~Exists(store, fileId)
          THEN /\ hpc' = "done"
               /\ resp' = ErrorResponse(404, "File not found", NoError.message)
               /\ UNCHANGED callVars
          ELSE IF extname(fileId) = ".pdf"
          THEN \* await pdfExtract.extractBuffer(dataBuffer)
               /\ hpc' = "awaitExtract"
               /\ resp' = resp
               /\ UNCHANGED callVars
          ELSE StartPipeline(action, ReadFile(store, fileId))
  /\ UNCHANGED splitVars

\* the text extraction of the PDF settles
PdfExtracted ==
  /\ hpc = "awaitExtract"
  /\ \/ /\ FailWith("pdf", OtherMessage)
        /\ UNCHANGED callVars
     \/ /\ UNCHANGED <<hreq, store, storeAtRequest>>
        /\ IF trim(ReadFile(store, hreq.fileId)) = <<>>
           THEN /\ hpc' = "done"
                /\ resp' = ErrorResponse(400, "no text in PDF", NoError.message)
                /\ UNCHANGED callVars
           ELSE StartPipeline(hreq.action, ReadFile(store, hreq.fileId))
  /\ UNCHANGED splitVars

\* the steps of processTextWithGPT while the handler awaits it
PipelineStep ==
  /\ hpc = "awaitGPT"
  /\ Respond(1) \/ WaitDone(1)
  /\ UNCHANGED otherVars

\* await processTextWithGPT(...) settles
PipelineSettled ==
  /\ hpc = "awaitGPT"
  /\ pc[1] \in {"returned", "thrown"}
  /\ IF pc[1] = "thrown"
     THEN FailWith(IF extname(hreq.fileId) = ".pdf" THEN "pdf" ELSE "file", err[1].message)
     ELSE IF hreq.action = "analyze"
     THEN /\ hpc' = "done"
          /\ resp' = OkResponse("analysis")
          /\ UNCHANGED <<hreq, store, storeAtRequest>>
     ELSE IF extname(hreq.fileId) = ".pdf"
     THEN \* PDFDocument.create(), drawText, await pdfDoc.save()
          /\ hpc' = "awaitPdf"
          /\ UNCHANGED <<hreq, store, storeAtRequest, resp>>
     ELSE /\ hpc' = "done"
          /\ store' = WriteFile(store, DerivedName(hreq.fileId, hreq.action), ret[1].val)
          /\ resp' = OkResponse("url")
          /\ UNCHANGED <<hreq, storeAtRequest>>
  /\ UNCHANGED <<callVars, splitVars>>

\* the new PDF is drawn and saved, or pdf-lib throws
PdfSaved ==
  /\ hpc = "awaitPdf"
  /\ \/ FailWith("pdf", OtherMessage)
     \/ /\ hpc' = "done"
        /\ store' = WriteFile(store, DerivedName(hreq.fileId, hreq.action), ret[1].val)
        /\ resp' = OkResponse("url")
        /\ UNCHANGED <<hreq, storeAtRequest>>
  /\ UNCHANGED <<callVars, splitVars>>

\* the files uploaded before the request: a text file and a PDF of text t
Uploads(t) == {[name |-> TxtFile, content |-> t], [name |-> PdfFile, content |-> t]}

InitHandler ==
  /\ InitCalls
  /\ InitSplitIdle
  /\ hpc = "idle"
  /\ hreq = NoRequest
  /\ store \in {Uploads(t) : t \in Texts({"a"}, MaxHandlerTextLen)}
  /\ storeAtRequest = {}
  /\ resp = NoResponse

NextHandler ==
  \/ HandleRequest
  \/ PdfExtracted
  \/ PipelineStep
  \/ PipelineSettled
  \/ PdfSaved

SpecHandler == InitHandler /\ [][NextHandler]_vars

\* ---- C17 -----------------------------------------------------------------
DerivedFiles == {f \in store : f.name \notin {TxtFile, PdfFile}}

\* C17: once the pipeline call of a request has failed, the file store is
\* what it was when the request arrived, and the response, once sent, is a
\* 500 carrying the message of the error thrown; a derived file exists only
\* after the pipeline call returned, is named after the file and an action
\* other than 'analyze', and the uploaded files are never modified.
C17_FailureLeavesStoreUnchanged ==
  /\ pc[1] = "thrown" =>
       /\ store = storeAtRequest
       /\ hpc \in {"awaitGPT", "done"}
       /\ hpc = "done" => (resp.status = 500 /\ resp.details = err[1].message)
  /\ hpc # "idle" => storeAtRequest \subseteq store
  /\ \A f \in DerivedFiles :
       /\ pc[1] = "returned"
       /\ hpc = "done"
       /\ hreq.action # "analyze"
       /\ f.name = DerivedName(hreq.fileId, hreq.action)
       /\ f.content = ret[1].val

\* the pipeline call of a 'fix' request failed at its second chunk and the
\* client got the 500
C17_Witness ==
  /\ hpc = "done"
  /\ pc[1] = "thrown"
  /\ idx[1] = 2
  /\ hreq.action = "fix"
  /\ err[1] = BudgetError(DefaultMaxRetries)
  /\ resp.status = 500

\* ---- the tokenizer-based splitter as a program of its own ---------------
MaxTokTextLen == 6       \* longest text given to the splitter
MaxTokBudget == 3        \* largest maxTokens given to the splitter

InitTokSplit ==
  /\ InitCalls
  /\ InitHandlerIdle
  /\ splitText \in Texts(Alphabet, MaxTokTextLen)
  /\ splitMaxTokens \in 1..MaxTokBudget
  /\ splitChunks = <<>>
  /\ splitDone = FALSE

\* chunks = splitTextIntoChunks(text, maxTokens), second revision
TokSplit ==
  /\ ~splitDone
  /\ splitChunks' = splitTextIntoChunks(splitText, splitMaxTokens)
  /\ splitDone' = TRUE
  /\ UNCHANGED <<splitText, splitMaxTokens, callVars, handlerVars>>

NextTokSplit == TokSplit

SpecTokSplit == InitTokSplit /\ [][NextTokSplit]_vars

\* ---- C21 -----------------------------------------------------------------
CeilDiv(n, B) == (n + B - 1) \div B

\* tokens [j*B, min((j+1)*B, n)) of the text, j counted from 0
TokenSlice(tokens, j, B) ==
  [k \in 1..(Min((j + 1) * B, Len(tokens)) - j * B) |-> tokens[j * B + k]]

\* the slices 0..m-1 one after the other
RECURSIVE SlicesConcat(_, _, _)
SlicesConcat(tokens, m, B) ==
  IF m = 0 THEN <<>>
  ELSE SlicesConcat(tokens, m - 1, B) \o TokenSlice(tokens, m - 1, B)

\* C21: the tokenizer-based splitTextIntoChunks partitions the token
\* sequence of the text: for n tokens and maxTokens = B > 0 it returns
\* ceil(n / B) chunks, chunk j is the decoding of tokens
\* [j*B, min((j+1)*B, n)), every slice holds between 1 and B tokens, only
\* the last may hold fewer than B, and the slices in order make up the
\* token sequence.
C21_TokenPartition ==
  splitDone =>
    LET tokens == encode(splitText)
        n == Len(tokens)
        B == splitMaxTokens
        m == Len(splitChunks)
    IN /\ m = CeilDiv(n, B)
       /\ \A j \in 0..(m - 1) :
            /\ splitChunks[j + 1] = decode(TokenSlice(tokens, j, B))
            /\ Len(TokenSlice(tokens, j, B)) \in 1..B
            /\ j < m - 1 => Len(TokenSlice(tokens, j, B)) = B
       /\ SlicesConcat(tokens, m, B) = tokens

\* five tokens, one of them the merged pair, split by 2 into three chunks
\* with a short last one
C21_Witness ==
  /\ splitDone
  /\ splitMaxTokens = 2
  /\ Len(splitText) = 6
  /\ Len(encode(splitText)) = 5
  /\ Len(splitChunks) = 3
  /\ Len(encode(splitChunks[3])) = 1

====
